---- MODULE Spec2Model ----
(***************************************************************************)
(* Keystroke recorder of tresays: the Logger class and the keyStart /      *)
(* keyEnd callbacks that startLogging binds to document.onkeydown and      *)
(* document.onkeyup.  The repository holds two editions of the program:    *)
(* src/unnamed/part_000 (the revised edition, "Rev": pause flag, warning   *)
(* on a stray key-up) and src/treSaysPoC.js (the first edition, "PoC").    *)
(* The variable impl says which edition is running; the definitions follow *)
(* part_000 and branch on impl where treSaysPoC.js differs.                *)
(***************************************************************************)
EXTENDS Integers, Sequences, FiniteSets, TLC

\* ---------------------------------------------------------------- bounds
\* Date.now() takes the values 1..MaxTime (it never decreases).
MaxTime == 2
\* No event is delivered once the raw log holds MaxLog entries.
MaxLog == 3
\* The same limit where only the two ordinary keys are pressed (SpecPairs).
MaxPairLog == 4
\* The same limit where the timer draws the records (SpecDraw).
MaxDrawLog == 4
\* The same limit where the timer is fair (SpecLive).
MaxLiveLog == 2
\* In SpecDraw and SpecLive no key-up is delivered once this many record objects are
\* alive (held by Logger.aRecord or by LogDrawer.aDrew).
MaxRecs == 2

\* ------------------------------------------------------- program constants
\* LogDrawer.DEFAULT_MS_PER_PX (startLogging passes no msPerPxRate)
MS_PER_PX == 5

\* --------------------------------------------------------- JavaScript values
\* this._zero = null.  The code reads _zero only as !this._zero and as
\* Date.now() - this._zero, and null behaves as 0 in both.
Null == 0
\* typeof oEvent.keyCode === 'undefined'
Undefined == -1
\* a falsy oEvent.key (undefined or the empty string): !sKey
NoKey == ""
\* a plain object without own properties: {}
EmptyObj == [x \in {} |-> 0]

Implementations == {"Rev", "PoC"}

\* The key / keyCode pairs the input source delivers: two ordinary keys, key
\* code 65 arriving under a second label, an event with a key code and no
\* label, and an event without a key code.
Events ==
    { [key |-> "a", keyCode |-> 65],
      [key |-> "b", keyCode |-> 66],
      [key |-> "b", keyCode |-> 65],
      [key |-> NoKey, keyCode |-> 65],
      [key |-> "a", keyCode |-> Undefined] }

\* The two ordinary keys among them.
OrdinaryKeys ==
    { [key |-> "a", keyCode |-> 65],
      [key |-> "b", keyCode |-> 66] }

KeyCodes == {e.keyCode : e \in Events} \ {Undefined}
Labels == {e.key : e \in Events} \ {NoKey}

VARIABLES
    impl,        \* which edition of the program runs
    aLogger,     \* Logger.aLogger: the raw event log
    aRecord,     \* Logger.aRecord: the completed records
    zero,        \* Logger._zero: the session clock anchor, or Null
    keysDown,    \* Logger._keysDown: label -> {start}
    isPaused,    \* Logger.isPaused (Rev only; never set in PoC)
    now,         \* the last value Date.now() returned
    aDrew,       \* LogDrawer.aDrew: the record objects already drawn
    mLastEnds,   \* LogDrawer.mLastEnds: key code -> end of the last record drawn
    lanes,       \* the lane elements of the document, in document order
    downCode,    \* history: label -> the key code of the key-down that opened its interval
    nDelivered,  \* history: well-formed events delivered while not paused since the last reset
    prevZero,    \* history: the value of _zero that the last reset cleared
    last         \* history: the last callback, its event and what it signalled

vars == <<impl, aLogger, aRecord, zero, keysDown, isPaused, now, aDrew,
          mLastEnds, lanes, downCode, nDelivered, prevZero, last>>

\* obj[k] = v
Put(obj, k, v) == [x \in (DOMAIN obj) \cup {k} |-> IF x = k THEN v ELSE obj[x]]
\* delete obj[k]
Delete(obj, k) == [x \in (DOMAIN obj) \ {k} |-> obj[x]]

\* The Logger and LogDrawer objects together with the clock and the signals of the running
\* callback (warned: console.warn was called; threw: an exception left it).
State ==
    [ aLogger |-> aLogger, aRecord |-> aRecord, zero |-> zero,
      keysDown |-> keysDown, isPaused |-> isPaused, now |-> now,
      aDrew |-> aDrew, mLastEnds |-> mLastEnds, lanes |-> lanes,
      downCode |-> downCode, warned |-> FALSE, threw |-> FALSE ]

\* The identities of the record objects alive in s.  A record is an object:
\* aDrew.includes compares identities, not contents.
LiveIds(s) ==
    {s.aRecord[i].id : i \in DOMAIN s.aRecord} \cup {s.aDrew[i].id : i \in DOMAIN s.aDrew}

\* The identity of a newly created object: one no live object has (the least such).
FreshId(s) ==
    CHOOSE n \in 1..(Cardinality(LiveIds(s)) + 1) :
        /\ n \notin LiveIds(s)
        /\ \A m \in 1..(n - 1) : m \in LiveIds(s)

\* logEvent with the label guard of startRecord (!oEvent.key) added to it.
logEvent_RequiresLabel(s, oEvent, dNow) ==
    IF s.isPaused THEN s
    ELSE IF oEvent.key = NoKey \/ oEvent.keyCode = Undefined THEN s
    ELSE LET z == IF s.zero = Null THEN dNow ELSE s.zero
         IN  [s EXCEPT !.now = dNow,
                       !.zero = z,
                       !.aLogger = Append(@, [type |-> oEvent.type,
                                              keyCode |-> oEvent.keyCode,
                                              key |-> oEvent.key,
                                              offset |-> dNow - z,
                                              ts |-> dNow])]

\* logEvent without the typeof oEvent.keyCode === 'undefined' guard.
logEvent_NoKeyCodeGuard(s, oEvent, dNow) ==
    IF s.isPaused THEN s
    ELSE LET z == IF s.zero = Null THEN dNow ELSE s.zero
         IN  [s EXCEPT !.now = dNow,
                       !.zero = z,
                       !.aLogger = Append(@, [type |-> oEvent.type,
                                              keyCode |-> oEvent.keyCode,
                                              key |-> oEvent.key,
                                              offset |-> dNow - z,
                                              ts |-> dNow])]

\* logEvent with this._zero = dNow done on every event (the !this._zero test lost).
logEvent_AlwaysAnchors(s, oEvent, dNow) ==
    IF s.isPaused THEN s
    ELSE IF oEvent.keyCode = Undefined THEN s
    ELSE [s EXCEPT !.now = dNow,
                   !.zero = dNow,
                   !.aLogger = Append(@, [type |-> oEvent.type,
                                          keyCode |-> oEvent.keyCode,
                                          key |-> oEvent.key,
                                          offset |-> 0,
                                          ts |-> dNow])]

\* Logger.logEvent(oEvent), Date.now() returning dNow.
logEvent(s, oEvent, dNow) ==
    IF s.isPaused THEN s
    ELSE IF oEvent.keyCode = Undefined THEN s
    ELSE LET z == IF s.zero = Null THEN dNow ELSE s.zero
         IN  [s EXCEPT !.now = dNow,
                       !.zero = z,
                       !.aLogger = Append(@, [type |-> oEvent.type,
                                              keyCode |-> oEvent.keyCode,
                                              key |-> oEvent.key,
                                              offset |-> dNow - z,
                                              ts |-> dNow])]

\* startRecord without the duplicate key-down guard (this._keysDown[sKey]).
startRecord_NoDuplicateGuard(s, sKey, sKeyCode, dNow) ==
    IF s.isPaused THEN s
    ELSE IF sKey = NoKey \/ sKeyCode = Undefined THEN s
    ELSE LET z == IF s.zero = Null THEN dNow ELSE s.zero
         IN  [s EXCEPT !.now = dNow,
                       !.zero = z,
                       !.keysDown = Put(@, sKey, [start |-> dNow - z]),
                       !.downCode = Put(@, sKey, sKeyCode)]

\* startRecord keeping one open interval only: this._keysDown = {[sKey]: {start}}.
startRecord_SingleSlot(s, sKey, sKeyCode, dNow) ==
    IF s.isPaused THEN s
    ELSE IF sKey = NoKey \/ sKeyCode = Undefined THEN s
    ELSE IF sKey \in DOMAIN s.keysDown THEN s
    ELSE LET z == IF s.zero = Null THEN dNow ELSE s.zero
         IN  [s EXCEPT !.now = dNow,
                       !.zero = z,
                       !.keysDown = Put(EmptyObj, sKey, [start |-> dNow - z]),
                       !.downCode = Put(EmptyObj, sKey, sKeyCode)]

\* Logger.startRecord(sKey, sKeyCode), Date.now() returning dNow.
startRecord(s, sKey, sKeyCode, dNow) ==
    IF s.isPaused THEN s
    ELSE IF sKey = NoKey \/ sKeyCode = Undefined THEN s
    ELSE IF sKey \in DOMAIN s.keysDown THEN s
    ELSE LET z == IF s.zero = Null THEN dNow ELSE s.zero
         IN  [s EXCEPT !.now = dNow,
                       !.zero = z,
                       !.keysDown = Put(@, sKey, [start |-> dNow - z]),
                       !.downCode = Put(@, sKey, sKeyCode)]

\* The push of endRecord without the delete this._keysDown[sKey] after it.
pushRecord_NoDelete(s, sKey, sKeyCode, dNow) ==
    IF sKey \notin DOMAIN s.keysDown THEN [s EXCEPT !.threw = TRUE]
    ELSE [s EXCEPT !.now = dNow,
                   !.aRecord = Append(@, [id |-> FreshId(s),
                                          key |-> sKey,
                                          keyCode |-> sKeyCode,
                                          start |-> s.keysDown[sKey].start,
                                          end |-> dNow - s.zero])]

\* The push and the delete that end Logger.endRecord.  Reading .start of a
\* missing property is a TypeError.
pushRecord(s, sKey, sKeyCode, dNow) ==
    IF sKey \notin DOMAIN s.keysDown THEN [s EXCEPT !.threw = TRUE]
    ELSE [s EXCEPT !.now = dNow,
                   !.aRecord = Append(@, [id |-> FreshId(s),
                                          key |-> sKey,
                                          keyCode |-> sKeyCode,
                                          start |-> s.keysDown[sKey].start,
                                          end |-> dNow - s.zero]),
                   !.keysDown = Delete(@, sKey),
                   !.downCode = Delete(@, sKey)]

\* endRecord pushing a record of zero length for a key-up without a key-down.
endRecord_StrayPushes(s, sKey, sKeyCode, dNow) ==
    IF s.isPaused THEN s
    ELSE IF sKey = NoKey \/ sKeyCode = Undefined THEN s
    ELSE IF sKey \notin DOMAIN s.keysDown
         THEN [s EXCEPT !.now = dNow,
                        !.warned = (impl = "Rev"),
                        !.aRecord = Append(@, [id |-> FreshId(s),
                                               key |-> sKey,
                                               keyCode |-> sKeyCode,
                                               start |-> dNow - s.zero,
                                               end |-> dNow - s.zero])]
    ELSE pushRecord(s, sKey, sKeyCode, dNow)

\* Logger.endRecord(sKey, sKeyCode), Date.now() returning dNow.  Only the
\* revised edition warns about a key-up without a key-down.
endRecord(s, sKey, sKeyCode, dNow) ==
    IF s.isPaused THEN s
    ELSE IF sKey = NoKey \/ sKeyCode = Undefined THEN s
    ELSE IF sKey \notin DOMAIN s.keysDown
         THEN [s EXCEPT !.warned = (impl = "Rev")]
    ELSE pushRecord(s, sKey, sKeyCode, dNow)

\* keyStart(oLogger, oEvent): Date.now() returns t1 in logEvent, t2 in startRecord.
\* (The browser always passes the bound logger and an event object, so the
\* !oLogger || !oEvent guard of the revised edition never returns.)
keyStart(s, oEvent, t1, t2) ==
    startRecord(logEvent(s, oEvent, t1), oEvent.key, oEvent.keyCode, t2)

\* keyEnd(oLogger, oEvent): Date.now() returns t1 in logEvent, t2 in endRecord.
keyEnd(s, oEvent, t1, t2) ==
    endRecord(logEvent(s, oEvent, t1), oEvent.key, oEvent.keyCode, t2)

\* reset without this._keysDown = {}.
reset_KeepsKeysDown(s) ==
    [s EXCEPT !.zero = Null,
              !.aLogger = <<>>,
              !.aRecord = <<>>,
              !.isPaused = FALSE]

\* reset without this._zero = null.
reset_KeepsZero(s) ==
    [s EXCEPT !.keysDown = EmptyObj,
              !.downCode = EmptyObj,
              !.aLogger = <<>>,
              !.aRecord = <<>>,
              !.isPaused = FALSE]

\* Logger.reset()
reset(s) ==
    [s EXCEPT !.zero = Null,
              !.keysDown = EmptyObj,
              !.downCode = EmptyObj,
              !.aLogger = <<>>,
              !.aRecord = <<>>,
              !.isPaused = FALSE]

\* ------------------------------------------------------------- LogDrawer
\* F applied to the value of v: v's value is computed once and then used,
\* as a JavaScript statement uses the value an earlier statement assigned.
Then(v, F(_)) == CHOOSE r \in {F(x) : x \in {v}} : TRUE

RECURSIVE GCD(_, _)
GCD(a, b) == IF b = 0 THEN a ELSE GCD(b, a % b)

\* ms / this.MS_PER_PX: a JavaScript number, kept exact as the fraction
\* <<numerator, denominator>> in lowest terms (e.g. 100 / 5 is <<20, 1>>).
Px(ms) ==
    LET g == GCD(IF ms < 0 THEN 0 - ms ELSE ms, MS_PER_PX)
    IN  <<ms \div g, MS_PER_PX \div g>>

\* r put into the sorted sequence after the records that start no later.
InsertByStart(sorted, r) ==
    LET p == Cardinality({i \in DOMAIN sorted : sorted[i].start <= r.start})
    IN  SubSeq(sorted, 1, p) \o <<r>> \o SubSeq(sorted, p + 1, Len(sorted))

\* Array.prototype.sort((a, b) => a.start - b.start) on a copy: stable, so
\* records of equal start keep their order.
RECURSIVE SortByStart(_)
SortByStart(recs) ==
    IF recs = <<>> THEN <<>>
    ELSE Then(SortByStart(SubSeq(recs, 1, Len(recs) - 1)),
              LAMBDA sorted : InsertByStart(sorted, recs[Len(recs)]))

\* The members of a set of numbers in ascending order.
RECURSIVE Ascending(_)
Ascending(S) ==
    IF S = {} THEN <<>>
    ELSE LET m == CHOOSE x \in S : \A y \in S : x <= y
         IN  <<m>> \o Ascending(S \ {m})

\* aLanes = Object.values(aBuffer.reduce(...)): one {key, keyCode} per key
\* code, the key of the first record of that key code in aBuffer.  The
\* accumulator's property names are key codes, that is integer indices, and
\* Object.values lists integer-index properties in ascending numeric order.
aLanes(aBuffer) ==
    LET first(c) == CHOOSE i \in DOMAIN aBuffer :
                        /\ aBuffer[i].keyCode = c
                        /\ \A j \in 1..(i - 1) : aBuffer[j].keyCode # c
    IN  Then(Ascending({aBuffer[i].keyCode : i \in DOMAIN aBuffer}),
             LAMBDA codes :
                 [n \in DOMAIN codes |->
                     [key |-> aBuffer[first(codes[n])].key, keyCode |-> codes[n]]])

\* document.querySelector("#Lane-<keyCode>"): the lane's place in the
\* document, 0 when there is none.
LaneIndex(ls, keyCode) ==
    IF \E i \in DOMAIN ls : ls[i].keyCode = keyCode
    THEN CHOOSE i \in DOMAIN ls : ls[i].keyCode = keyCode
    ELSE 0

\* this.aDrew.includes(oRec)
Includes(drew, oRec) == \E i \in DOMAIN drew : drew[i].id = oRec.id

\* The lane element of oLane, created and appended to drawEl when missing.
ensureLane(s, oLane) ==
    IF LaneIndex(s.lanes, oLane.keyCode) # 0 THEN s
    ELSE [s EXCEPT !.lanes = Append(@, [keyCode |-> oLane.keyCode,
                                        label |-> oLane.key,
                                        segs |-> <<>>])]

\* drawRecord without this.aDrew.push(oRec).
drawRecord_NoDrewPush(s, oLane, oRec) ==
    LET lastEnd == IF oLane.keyCode \in DOMAIN s.mLastEnds
                   THEN s.mLastEnds[oLane.keyCode] ELSE 0
        gap == [kind |-> "gap", width |-> Px(oRec.start - lastEnd), rec |-> oRec.id]
        chunk == [kind |-> "chunk", width |-> Px(oRec.end - oRec.start), rec |-> oRec.id]
        i == LaneIndex(s.lanes, oLane.keyCode)
    IN  [s EXCEPT !.mLastEnds = Put(@, oLane.keyCode, oRec.end),
                  !.lanes[i].segs = @ \o <<gap, chunk>>]

\* drawRecord without this.mLastEnds.set(oLane.keyCode, oRec.end).
drawRecord_KeepsLastEnd(s, oLane, oRec) ==
    LET lastEnd == IF oLane.keyCode \in DOMAIN s.mLastEnds
                   THEN s.mLastEnds[oLane.keyCode] ELSE 0
        gap == [kind |-> "gap", width |-> Px(oRec.start - lastEnd), rec |-> oRec.id]
        chunk == [kind |-> "chunk", width |-> Px(oRec.end - oRec.start), rec |-> oRec.id]
        i == LaneIndex(s.lanes, oLane.keyCode)
    IN  [s EXCEPT !.lanes[i].segs = @ \o <<gap, chunk>>,
                  !.aDrew = Append(@, oRec)]

\* The body of the forEach over a lane's new records: the gap and the chunk
\* of oRec appended to the lane (rec: history, the record a segment is of).
drawRecord(s, oLane, oRec) ==
    LET lastEnd == IF oLane.keyCode \in DOMAIN s.mLastEnds
                   THEN s.mLastEnds[oLane.keyCode] ELSE 0
        gap == [kind |-> "gap", width |-> Px(oRec.start - lastEnd), rec |-> oRec.id]
        chunk == [kind |-> "chunk", width |-> Px(oRec.end - oRec.start), rec |-> oRec.id]
        i == LaneIndex(s.lanes, oLane.keyCode)
    IN  [s EXCEPT !.mLastEnds = Put(@, oLane.keyCode, oRec.end),
                  !.lanes[i].segs = @ \o <<gap, chunk>>,
                  !.aDrew = Append(@, oRec)]

RECURSIVE drawRecords(_, _, _)
drawRecords(s, oLane, todo) ==
    IF todo = <<>> THEN s
    ELSE Then(drawRecord(s, oLane, todo[1]),
              LAMBDA s1 : drawRecords(s1, oLane, SubSeq(todo, 2, Len(todo))))

\* The records of aBuffer of the lane's key code that are not in drew.
NewOf(aBuffer, drew, oLane) ==
    LET new(oRec) == ~Includes(drew, oRec) /\ oRec.keyCode = oLane.keyCode
    IN  SelectSeq(aBuffer, new)

\* drawLane without the filter on this.aDrew.
drawLane_NoDrewFilter(s, aBuffer, oLane) ==
    Then(ensureLane(s, oLane),
         LAMBDA s1 : Then(NewOf(aBuffer, <<>>, oLane),
                          LAMBDA todo : drawRecords(s1, oLane, todo)))

\* The body of aLanes.forEach: the lane found or created, then its records
\* that are not in aDrew drawn in aBuffer order.
drawLane(s, aBuffer, oLane) ==
    Then(ensureLane(s, oLane),
         LAMBDA s1 : Then(NewOf(aBuffer, s1.aDrew, oLane),
                          LAMBDA todo : drawRecords(s1, oLane, todo)))

RECURSIVE drawLanes(_, _, _)
drawLanes(s, aBuffer, ls) ==
    IF ls = <<>> THEN s
    ELSE Then(drawLane(s, aBuffer, ls[1]),
              LAMBDA s1 : drawLanes(s1, aBuffer, SubSeq(ls, 2, Len(ls))))

\* draw without .slice(): oLogger.aRecord itself is sorted.
draw_SortsInPlace(s) ==
    Then(SortByStart(s.aRecord),
         LAMBDA aBuffer : Then(aLanes(aBuffer),
                               LAMBDA ls : drawLanes([s EXCEPT !.aRecord = aBuffer],
                                                     aBuffer, ls)))

\* LogDrawer.draw(oLogger)
draw(s) ==
    Then(SortByStart(s.aRecord),
         LAMBDA aBuffer : Then(aLanes(aBuffer),
                               LAMBDA ls : drawLanes(s, aBuffer, ls)))

\* The callback with the isPaused test inverted.
timerCallback_DrawsOnlyPaused(s) ==
    IF impl = "Rev" /\ s.isPaused THEN draw(s) ELSE s

\* The callback without the isPaused test.
timerCallback_IgnoresPause(s) == draw(s)

\* The setInterval callback of startLogging: the revised edition draws only
\* while the logger is not paused.
timerCallback(s) ==
    IF impl = "Rev" /\ s.isPaused THEN s ELSE draw(s)

\* The state a callback leaves behind.
Commit(s) ==
    /\ aLogger' = s.aLogger
    /\ aRecord' = s.aRecord
    /\ zero' = s.zero
    /\ keysDown' = s.keysDown
    /\ isPaused' = s.isPaused
    /\ now' = s.now
    /\ aDrew' = s.aDrew
    /\ mLastEnds' = s.mLastEnds
    /\ lanes' = s.lanes
    /\ downCode' = s.downCode

Observed(e) == ~isPaused /\ e.keyCode # Undefined

Signal(op, e, s) ==
    [op |-> op, key |-> e.key, keyCode |-> e.keyCode,
     warned |-> s.warned, threw |-> s.threw]

NoEvent == [key |-> NoKey, keyCode |-> Undefined]

Init ==
    /\ impl \in Implementations
    /\ aLogger = <<>>
    /\ aRecord = <<>>
    /\ zero = Null
    /\ keysDown = EmptyObj
    /\ isPaused = FALSE
    /\ now = 1
    /\ aDrew = <<>>
    /\ mLastEnds = EmptyObj
    /\ lanes = <<>>
    /\ downCode = EmptyObj
    /\ nDelivered = 0
    /\ prevZero = Null
    /\ last = Signal("start", NoEvent, State)

\* document.onkeydown fires with an event e of the set evs.
KeyDownOf(evs, maxLog) ==
    \E e \in evs, t1 \in now..MaxTime :
      \E t2 \in t1..MaxTime :
        /\ Len(aLogger) < maxLog
        /\ LET s == keyStart(State, [type |-> "keydown", key |-> e.key,
                                     keyCode |-> e.keyCode], t1, t2)
           IN  /\ Commit(s)
               /\ last' = Signal("keydown", e, s)
        /\ nDelivered' = IF Observed(e) THEN nDelivered + 1 ELSE nDelivered
        /\ UNCHANGED <<impl, prevZero>>

\* document.onkeyup fires with an event e of the set evs.
KeyUpOf(evs, maxLog) ==
    \E e \in evs, t1 \in now..MaxTime :
      \E t2 \in t1..MaxTime :
        /\ Len(aLogger) < maxLog
        /\ LET s == keyEnd(State, [type |-> "keyup", key |-> e.key,
                                   keyCode |-> e.keyCode], t1, t2)
           IN  /\ Commit(s)
               /\ last' = Signal("keyup", e, s)
        /\ nDelivered' = IF Observed(e) THEN nDelivered + 1 ELSE nDelivered
        /\ UNCHANGED <<impl, prevZero>>

KeyDown == KeyDownOf(Events, MaxLog)

KeyUp == KeyUpOf(Events, MaxLog)

PairKeyDown == KeyDownOf(OrdinaryKeys, MaxPairLog)

PairKeyUp == KeyUpOf(OrdinaryKeys, MaxPairLog)

\* document.treSays.logger.reset()
Reset ==
    /\ LET s == reset(State)
       IN  /\ Commit(s)
           /\ last' = Signal("reset", NoEvent, s)
    /\ nDelivered' = 0
    /\ prevZero' = zero
    /\ UNCHANGED impl

\* document.treSays.logger.isPaused = TRUE / FALSE (the pause hook of Rev).
Pause ==
    /\ impl = "Rev"
    /\ ~isPaused
    /\ isPaused' = TRUE
    /\ last' = Signal("pause", NoEvent, State)
    /\ UNCHANGED <<impl, aLogger, aRecord, zero, keysDown, now, aDrew, mLastEnds,
                   lanes, downCode, nDelivered, prevZero>>

Resume ==
    /\ impl = "Rev"
    /\ isPaused
    /\ isPaused' = FALSE
    /\ last' = Signal("resume", NoEvent, State)
    /\ UNCHANGED <<impl, aLogger, aRecord, zero, keysDown, now, aDrew, mLastEnds,
                   lanes, downCode, nDelivered, prevZero>>

\* The setInterval callback fires ("timerAgain": right after another firing).
Timer ==
    /\ \E s \in {timerCallback(State)} :
           /\ Commit(s)
           /\ last' = Signal(IF last.op \in {"timer", "timerAgain"}
                             THEN "timerAgain" ELSE "timer", NoEvent, s)
    /\ UNCHANGED <<impl, nDelivered, prevZero>>

DrawKeyDown == KeyDownOf(OrdinaryKeys, MaxDrawLog)

DrawKeyUp ==
    /\ Cardinality(LiveIds(State)) < MaxRecs
    /\ KeyUpOf(OrdinaryKeys, MaxDrawLog)

LiveKeyDown == KeyDownOf(OrdinaryKeys, MaxLiveLog)

LiveKeyUp ==
    /\ Cardinality(LiveIds(State)) < MaxRecs
    /\ KeyUpOf(OrdinaryKeys, MaxLiveLog)

Next == KeyDown \/ KeyUp \/ Reset \/ Pause \/ Resume

Spec == Init /\ [][Next]_vars

\* The same program with only the two ordinary keys pressed and released.
NextPairs == PairKeyDown \/ PairKeyUp \/ Reset \/ Pause \/ Resume

SpecPairs == Init /\ [][NextPairs]_vars

\* The recorder together with the periodic render.
NextDraw == DrawKeyDown \/ DrawKeyUp \/ Reset \/ Pause \/ Resume \/ Timer

SpecDraw == Init /\ [][NextDraw]_vars

\* The same with fewer key events, and the timer firing again and again
\* (setInterval).
NextLive == LiveKeyDown \/ LiveKeyUp \/ Reset \/ Pause \/ Resume \/ Timer

SpecLive == Init /\ [][NextLive]_vars /\ WF_vars(Timer)

\* ------------------------------------------------------------------ steps
\* Every callback writes last, so last' tells which callback a step is.
DownStep == last'.op = "keydown"
UpStep == last'.op = "keyup"
\* The step's event reached the recorder: not paused, key code present.
ObservedStep == ~isPaused /\ last'.keyCode # Undefined
\* The step appended exactly one raw event of the given type for the step's event.
AppendedRaw(type) ==
    /\ Len(aLogger') = Len(aLogger) + 1
    /\ SubSeq(aLogger', 1, Len(aLogger)) = aLogger
    /\ aLogger'[Len(aLogger')].type = type
    /\ aLogger'[Len(aLogger')].key = last'.key
    /\ aLogger'[Len(aLogger')].keyCode = last'.keyCode
\* A key-up that finds no open interval under its label.
StrayUpStep == UpStep /\ ObservedStep /\ last'.key \notin DOMAIN keysDown
\* Raw events i and j are of the same key: same key code, same label, a label present.
SameKey(i, j) ==
    /\ aLogger[i].key = aLogger[j].key
    /\ aLogger[i].keyCode = aLogger[j].keyCode
    /\ aLogger[i].key # NoKey

\* ------------------------------------------------------------------- C1
OpenIntervalsOf(c) == {k \in DOMAIN keysDown : downCode[k] = c}
\* A key-down of key code c was observed and no key-up of c after it.
PendingDown(c) ==
    \E i \in 1..Len(aLogger) :
        /\ aLogger[i].keyCode = c
        /\ aLogger[i].type = "keydown"
        /\ \A j \in (i+1)..Len(aLogger) :
              ~(aLogger[j].keyCode = c /\ aLogger[j].type = "keyup")

\* C1: in every reachable state each key code has at most one open interval,
\* and it has one exactly when a key-down of that key code was observed with
\* no later key-up of the same key code.
\* (Stated for the runs in which every observed event carries a label.)
C1_OneOpenIntervalPerKeyCode ==
    (\A i \in 1..Len(aLogger) : aLogger[i].key # NoKey)
    => \A c \in KeyCodes :
          /\ Cardinality(OpenIntervalsOf(c)) <= 1
          /\ (OpenIntervalsOf(c) # {}) <=> PendingDown(c)

\* ------------------------------------------------------------------- C2
\* The raw log is: key-down, key-down, key-up, all three of one key.
DuplicatePressRun ==
    /\ Len(aLogger) = 3
    /\ aLogger[1].type = "keydown" /\ aLogger[2].type = "keydown"
    /\ aLogger[3].type = "keyup"
    /\ SameKey(1, 2) /\ SameKey(2, 3)

\* C2: a key-down whose key already has an open interval leaves the open
\* intervals (their number and their starts) and the records as they are and
\* throws nothing; a key-up that closes an interval records that interval's
\* start; so after key-down, key-down, key-up of one key there is exactly one
\* record, its start was taken by the first key-down (at or after its raw
\* offset, not after the second key-down's), and no interval stays open.
C2_DuplicatePress ==
    /\ [][DownStep /\ ObservedStep /\ last'.key \in DOMAIN keysDown
            => /\ keysDown' = keysDown
               /\ aRecord' = aRecord
               /\ ~last'.threw]_vars
    /\ [][UpStep /\ ObservedStep /\ last'.key \in DOMAIN keysDown
            => /\ Len(aRecord') = Len(aRecord) + 1
               /\ aRecord'[Len(aRecord')].start = keysDown[last'.key].start]_vars
    /\ [](DuplicatePressRun
            => /\ Len(aRecord) = 1
               /\ aRecord[1].key = aLogger[1].key
               /\ aLogger[1].offset <= aRecord[1].start
               /\ aRecord[1].start <= aLogger[2].offset
               /\ keysDown = EmptyObj)

\* The run has happened and the second key-down came later than the first.
C2_Witness ==
    /\ DuplicatePressRun
    /\ Len(aRecord) = 1
    /\ aLogger[2].ts > aLogger[1].ts
    /\ aRecord[1].start = 0

\* ------------------------------------------------------------------- C3
\* C3: a key-up for a key with no open interval appends no record, throws
\* nothing and calls the warning channel.
C3_StrayReleaseWarns ==
    [][StrayUpStep
        => /\ aRecord' = aRecord
           /\ ~last'.threw
           /\ last'.warned]_vars

\* ------------------------------------------------------------------- C4
\* C4 as stated: a stray key-up leaves session clock, open intervals, records
\* and raw log all unchanged.
C4_StrayReleaseChangesNothing ==
    [][StrayUpStep => UNCHANGED <<zero, keysDown, aRecord, aLogger>>]_vars

\* C4 amended: a stray key-up leaves the open intervals and the records
\* unchanged and an anchored session clock unchanged; it appends exactly one
\* raw event, and anchors the session clock to that event's timestamp when it
\* was null.
C4_StrayReleaseOnlyLogs ==
    [][StrayUpStep
        => /\ keysDown' = keysDown
           /\ aRecord' = aRecord
           /\ AppendedRaw("keyup")
           /\ zero # Null => zero' = zero
           /\ zero = Null => zero' = aLogger'[1].ts]_vars

\* A stray key-up of an ordinary key was the last callback, after an earlier event.
C4_Witness ==
    /\ last.op = "keyup" /\ last.key # NoKey /\ last.keyCode # Undefined
    /\ ~isPaused
    /\ Len(aLogger) = 2
    /\ aLogger[1].type = "keyup" /\ aLogger[2].type = "keyup"
    /\ aLogger[2].key = last.key
    /\ aRecord = <<>>

\* ------------------------------------------------------------------- C5
\* s is a prefix of t
IsPrefix(s, t) == Len(s) <= Len(t) /\ SubSeq(t, 1, Len(s)) = s

\* C5: every key-down or key-up with a key code, delivered while not paused,
\* appends exactly one raw event (its type, key code and label) at the end of
\* the raw log; only reset shortens the raw log; its length is the number of
\* such events since the last reset.
C5_RawLogAppendOnly ==
    /\ [][DownStep /\ ObservedStep => AppendedRaw("keydown")]_vars
    /\ [][UpStep /\ ObservedStep => AppendedRaw("keyup")]_vars
    /\ [][last'.op # "reset" => IsPrefix(aLogger, aLogger')]_vars
    /\ [](Len(aLogger) = nDelivered)

\* Three events were logged: a press, its duplicate and a stray release without a label.
C5_Witness ==
    /\ nDelivered = 3
    /\ aLogger[1].type = "keydown" /\ aLogger[2].type = "keydown"
    /\ SameKey(1, 2)
    /\ aLogger[3].type = "keyup" /\ aLogger[3].key = NoKey
    /\ DOMAIN keysDown = {aLogger[1].key}
    /\ aRecord = <<>>

\* ------------------------------------------------------------------- C6
\* C6: a key-down or key-up without a key code changes neither the raw log,
\* nor the open intervals, nor the records, nor the session clock, and throws
\* nothing.
C6_MalformedEventDropped ==
    [][(DownStep \/ UpStep) /\ last'.keyCode = Undefined
        => /\ UNCHANGED <<aLogger, keysDown, aRecord, zero>>
           /\ ~last'.threw]_vars

\* A key-up without a key code was the last callback, delivered while not
\* paused, before any event anchored the clock.
C6_Witness ==
    /\ last.op = "keyup" /\ last.keyCode = Undefined /\ last.key # NoKey
    /\ ~isPaused
    /\ zero = Null
    /\ aLogger = <<>>

\* ------------------------------------------------------------------- C7
\* C7: the session clock is null while no event has been observed, it is the
\* timestamp of the first observed event (a key-down or a key-up) afterwards,
\* and no step but reset changes it once it is set; every raw offset and every
\* record start and end is >= 0, and the first raw event has offset 0.
C7_ZeroAnchoredOnce ==
    /\ [](aLogger = <<>> => zero = Null)
    /\ [](aLogger # <<>> => zero = aLogger[1].ts /\ aLogger[1].offset = 0)
    /\ [][zero # Null /\ last'.op # "reset" => zero' = zero]_vars
    /\ [](\A i \in 1..Len(aLogger) : aLogger[i].offset >= 0)
    /\ [](\A i \in 1..Len(aRecord) : aRecord[i].start >= 0 /\ aRecord[i].end >= 0)

\* A key-up anchored the clock and a later event came after the clock moved on.
C7_Witness ==
    /\ Len(aLogger) >= 2
    /\ aLogger[1].type = "keyup"
    /\ aLogger[Len(aLogger)].ts > zero
    /\ aLogger[Len(aLogger)].offset > 0

\* ------------------------------------------------------------------- C8
\* reset has just run: everything it clears is clear.
ClearedByReset ==
    last.op = "reset"
    => zero = Null /\ keysDown = EmptyObj /\ aRecord = <<>> /\ aLogger = <<>>

\* The first key-down in the raw log (the first one observed since the reset).
IsFirstKeyDown(i) ==
    /\ aLogger[i].type = "keydown"
    /\ \A j \in 1..(i-1) : aLogger[j].type # "keydown"

\* C8 as stated: reset clears clock, open intervals, records and raw log, and
\* the first key-down after it anchors the clock: its offset is 0 and the
\* clock is its timestamp.
C8_FirstKeyDownReanchors ==
    /\ ClearedByReset
    /\ \A i \in 1..Len(aLogger) :
          IsFirstKeyDown(i) => aLogger[i].offset = 0 /\ zero = aLogger[i].ts

\* C8 amended: reset clears clock, open intervals, records and raw log, and
\* the first event observed after it, a key-down or a key-up, anchors the
\* clock: its offset is 0, the clock is its timestamp, and every offset of
\* the new session is the event's timestamp less that one, whatever the
\* cleared clock was.
C8_FirstEventReanchors ==
    /\ ClearedByReset
    /\ aLogger # <<>>
        => /\ zero = aLogger[1].ts
           /\ \A i \in 1..Len(aLogger) :
                 aLogger[i].offset = aLogger[i].ts - aLogger[1].ts
    /\ \A k \in DOMAIN keysDown : keysDown[k].start <= now - zero
    /\ \A i \in 1..Len(aRecord) : aRecord[i].end <= now - zero

\* A session was reset and a key-down started the next one at a later time.
C8_Witness ==
    /\ prevZero # Null
    /\ Len(aLogger) >= 2
    /\ aLogger[1].type = "keydown"
    /\ zero > prevZero
    /\ keysDown # EmptyObj

\* ------------------------------------------------------------------- C9
\* The raw log is a sequence of pairs: a key-down and then the key-up of the same key.
PairedLog ==
    /\ Len(aLogger) % 2 = 0
    /\ \A j \in 1..(Len(aLogger) \div 2) :
          /\ aLogger[2*j - 1].type = "keydown"
          /\ aLogger[2*j].type = "keyup"
          /\ SameKey(2*j - 1, 2*j)

\* C9: when the events observed since the reset are key-down / key-up pairs
\* of one key each, one pair after the other, the records are one per pair,
\* in pair order, each of the pair's key, with start <= end, taken between
\* the pair's raw offsets, and each record ends no later than the next starts.
C9_OneRecordPerPair ==
    PairedLog
    => /\ Len(aRecord) = Len(aLogger) \div 2
       /\ keysDown = EmptyObj
       /\ \A j \in 1..Len(aRecord) :
             /\ aRecord[j].key = aLogger[2*j].key
             /\ aRecord[j].keyCode = aLogger[2*j].keyCode
             /\ aRecord[j].start <= aRecord[j].end
             /\ aLogger[2*j - 1].offset <= aRecord[j].start
             /\ aRecord[j].start <= aLogger[2*j].offset
             /\ aLogger[2*j].offset <= aRecord[j].end
             /\ j > 1 => aRecord[j - 1].end <= aRecord[j].start

\* Two pairs of the same key were recorded, the first held for a while.
C9_Witness ==
    /\ PairedLog
    /\ Len(aLogger) = 4
    /\ SameKey(1, 3)
    /\ Len(aRecord) = 2
    /\ aRecord[1].start < aRecord[1].end

\* ------------------------------------------------------------------ C10
\* The raw log is: press A, press B, release B, release A, for two keys A and B.
OverlappingHolds ==
    /\ Len(aLogger) = 4
    /\ aLogger[1].type = "keydown" /\ aLogger[2].type = "keydown"
    /\ aLogger[3].type = "keyup" /\ aLogger[4].type = "keyup"
    /\ SameKey(1, 4) /\ SameKey(2, 3)
    /\ aLogger[1].keyCode # aLogger[2].keyCode
    /\ aLogger[1].key # aLogger[2].key

\* The number of records of raw event i's key.
RecordsOf(i) ==
    Cardinality({j \in 1..Len(aRecord) :
                   /\ aRecord[j].key = aLogger[i].key
                   /\ aRecord[j].keyCode = aLogger[i].keyCode})

\* C10 as stated: after press A, press B, release B, release A there is
\* exactly one record for A and one for B, both with start < end.
C10_OverlapStrict ==
    OverlappingHolds
    => /\ Len(aRecord) = 2
       /\ RecordsOf(1) = 1 /\ RecordsOf(2) = 1
       /\ \A j \in 1..2 : aRecord[j].start < aRecord[j].end

\* C10 amended: after press A, press B, release B, release A there is
\* exactly one record for A and one for B, both with start <= end.
C10_OverlapNonStrict ==
    OverlappingHolds
    => /\ Len(aRecord) = 2
       /\ RecordsOf(1) = 1 /\ RecordsOf(2) = 1
       /\ \A j \in 1..2 : aRecord[j].start <= aRecord[j].end

\* The four events happened; B was pressed and released within one clock
\* reading, A was held over a clock tick.
C10_Witness ==
    /\ OverlappingHolds
    /\ Len(aRecord) = 2
    /\ aRecord[1].start = aRecord[1].end
    /\ aRecord[2].start < aRecord[2].end

\* ------------------------------------------------------------------- C11
\* The records of aRecord are all in aDrew.
AllDrawn == \A i \in DOMAIN aRecord : Includes(aDrew, aRecord[i])

\* C11: render is idempotent on an unchanged record set.  In every state,
\* drawing a second time right after drawing leaves what the first draw left:
\* no segment and no lane is appended, and mLastEnds and aDrew are unchanged.
C11_RenderIdempotent ==
    LET once == draw(State)
        twice == draw(once)
    IN  /\ twice.lanes = once.lanes
        /\ twice.mLastEnds = once.mLastEnds
        /\ twice.aDrew = once.aDrew
        /\ twice = once

\* The timer has drawn twice in a row, with records on the surface.
C11_Witness ==
    /\ last.op = "timerAgain"
    /\ ~isPaused
    /\ aRecord # <<>>
    /\ AllDrawn
    /\ \E i \in DOMAIN lanes : lanes[i].segs # <<>>

\* ------------------------------------------------------------------- C12
\* The segments of kind k on the surface that are of the record object id,
\* as <<lane, place>> pairs.
SegmentsOf(k, id) ==
    {p \in {<<i, n>> : i \in DOMAIN lanes, n \in 1..(2 * Len(aDrew))} :
        /\ p[2] \in DOMAIN lanes[p[1]].segs
        /\ lanes[p[1]].segs[p[2]].kind = k
        /\ lanes[p[1]].segs[p[2]].rec = id}

\* No record object is in aDrew twice, every one has exactly one chunk and
\* one gap, on the lane of its key code, and the surface holds nothing else.
DrawnOnce ==
    /\ \A i, j \in DOMAIN aDrew : aDrew[i].id = aDrew[j].id => i = j
    /\ \A i \in DOMAIN aDrew :
          /\ Cardinality(SegmentsOf("chunk", aDrew[i].id)) = 1
          /\ Cardinality(SegmentsOf("gap", aDrew[i].id)) = 1
          /\ \A p \in SegmentsOf("chunk", aDrew[i].id) :
                lanes[p[1]].keyCode = aDrew[i].keyCode
    /\ \A i \in DOMAIN lanes : Len(lanes[i].segs) % 2 = 0
    /\ \A i \in DOMAIN lanes : \A n \in DOMAIN lanes[i].segs :
          \E j \in DOMAIN aDrew : aDrew[j].id = lanes[i].segs[n].rec

\* A step only adds to aDrew, and what it adds is a record the recorder
\* produced: an element of aRecord when the step began.
DrawsProduced ==
    /\ IsPrefix(aDrew, aDrew')
    /\ \A i \in DOMAIN aDrew' :
          i > Len(aDrew) => \E j \in DOMAIN aRecord : aRecord[j] = aDrew'[i]

\* C12: no duplicate draw.  Through key events, timer renders and resets,
\* every record of the DrawnSet was produced by the recorder and has exactly
\* one chunk on the surface; no record enters the DrawnSet twice or gets a
\* second gap/chunk pair, also when the record set grew between renders.
C12_NoDuplicateDraw == []DrawnOnce /\ [][DrawsProduced]_vars

\* Two records drawn by two renders: the second render found the first
\* record already drawn (one render of both would not give this aDrew).
C12_Witness ==
    /\ last.op = "timer"
    /\ Len(aRecord) = 2
    /\ Len(aDrew) = 2
    /\ AllDrawn
    /\ draw([State EXCEPT !.aDrew = <<>>, !.mLastEnds = EmptyObj,
                          !.lanes = <<>>]).aDrew # aDrew

\* ------------------------------------------------------------------- C13
KeyStep == last'.op \in {"keydown", "keyup"}
TimerStep == last'.op \in {"timer", "timerAgain"}

\* C13: while the recorder is paused, a key-down or key-up changes nothing
\* of the recorder (raw log, open intervals, records, session clock), the
\* timer callback draws nothing, and pausing or resuming changes no state
\* but the flag.
C13_PausedNoOps ==
    [][ /\ isPaused /\ KeyStep =>
              UNCHANGED <<aLogger, aRecord, zero, keysDown>>
        /\ isPaused /\ TimerStep =>
              UNCHANGED <<aDrew, mLastEnds, lanes>>
        /\ last'.op \in {"pause", "resume"} =>
              UNCHANGED <<aLogger, aRecord, zero, keysDown, aDrew, mLastEnds, lanes>>
      ]_vars

\* A key-up for a held key arrived while paused and its interval is still
\* open, with a record waiting undrawn.
C13_Witness ==
    /\ isPaused
    /\ last.op = "keyup"
    /\ last.key \in DOMAIN keysDown
    /\ aLogger # <<>>
    /\ ~AllDrawn

\* ------------------------------------------------------------------- C14
\* C14: cancellation.  The render loop and the key subscriptions are stopped
\* as part of reset (the program has no other teardown): once reset() has
\* run, the next callback to run is neither the timer callback nor a key
\* handler of the session that was reset.
C14_StoppedByReset ==
    [][last.op = "reset" => ~(KeyStep \/ TimerStep)]_vars

\* ------------------------------------------------------------------- C15
\* The drawn record object of identity id.
Drawn(id) == aDrew[CHOOSE i \in DOMAIN aDrew : aDrew[i].id = id]

\* The record of the k-th gap/chunk pair of a lane.
PairRecord(lane, k) == Drawn(lane.segs[2 * k].rec)

\* Every lane is a sequence of gap/chunk pairs, one per record; the chunk is
\* (end - start) / MS_PER_PX wide, the gap (start - lastDrawnEnd) / MS_PER_PX
\* with lastDrawnEnd the end of the record of the pair before (0 for the
\* first pair), and mLastEnds holds the end of the record of the last pair.
LaneWidths(lane) ==
    /\ Len(lane.segs) % 2 = 0
    /\ \A k \in 1..(Len(lane.segs) \div 2) :
          LET gap == lane.segs[2 * k - 1]
              chunk == lane.segs[2 * k]
              r == PairRecord(lane, k)
              lastDrawnEnd == IF k = 1 THEN 0 ELSE PairRecord(lane, k - 1).end
          IN  /\ gap.kind = "gap" /\ chunk.kind = "chunk"
              /\ gap.rec = chunk.rec
              /\ r.keyCode = lane.keyCode
              /\ MS_PER_PX * gap.width[1] = (r.start - lastDrawnEnd) * gap.width[2]
              /\ MS_PER_PX * chunk.width[1] = (r.end - r.start) * chunk.width[2]
              /\ gap.width[2] > 0 /\ chunk.width[2] > 0
    /\ lane.segs # <<>> =>
          /\ lane.keyCode \in DOMAIN mLastEnds
          /\ mLastEnds[lane.keyCode] = PairRecord(lane, Len(lane.segs) \div 2).end

\* The records one render adds to a lane are added in order of start.
DrawsInStartOrder ==
    \A i, j \in DOMAIN aDrew' :
        /\ Len(aDrew) < i /\ i < j
        /\ aDrew'[i].keyCode = aDrew'[j].keyCode
        => aDrew'[i].start <= aDrew'[j].start

\* The spec's example: records A 0..100 and A 150..200 on an empty surface.
ExampleRecords ==
    << [id |-> 1, key |-> "A", keyCode |-> 65, start |-> 0, end |-> 100],
       [id |-> 2, key |-> "A", keyCode |-> 65, start |-> 150, end |-> 200] >>

ExampleLanes ==
    draw([State EXCEPT !.aRecord = ExampleRecords, !.aDrew = <<>>,
                       !.mLastEnds = EmptyObj, !.lanes = <<>>]).lanes

ExampleDrawn ==
    /\ Len(ExampleLanes) = 1
    /\ ExampleLanes[1].label = "A"
    /\ [n \in 1..4 |-> <<ExampleLanes[1].segs[n].kind, ExampleLanes[1].segs[n].width>>]
         = << <<"gap", <<0, 1>> >>, <<"chunk", <<20, 1>> >>,
              <<"gap", <<10, 1>> >>, <<"chunk", <<10, 1>> >> >>

\* C15: render appends, for each record it draws, in start order within the
\* lane, a gap of (start - lastDrawnEnd) / msPerPxRate and a chunk of
\* (end - start) / msPerPxRate and sets lastDrawnEnd to the record's end
\* (0 for a new lane); the records A 0..100 and A 150..200 at 5 ms per px
\* give gap 0, chunk 20, gap 10, chunk 10.
C15_GapAndChunkWidths ==
    /\ [](ExampleDrawn /\ \A i \in DOMAIN lanes : LaneWidths(lanes[i]))
    /\ [][DrawsInStartOrder]_vars

\* Two records on one lane, the second after a gap of 1 ms (1/5 px).
C15_Witness ==
    \E i \in DOMAIN lanes :
        /\ Len(lanes[i].segs) = 4
        /\ lanes[i].segs[3].width = <<1, 5>>
        /\ mLastEnds[lanes[i].keyCode] = PairRecord(lanes[i], 2).end

\* ------------------------------------------------------------------- C16
\* The place of the first record of key code c in the sequence recs.
FirstOf(recs, c) ==
    CHOOSE i \in DOMAIN recs :
        /\ recs[i].keyCode = c
        /\ \A j \in 1..(i - 1) : recs[j].keyCode # c

\* C16: the lanes one render creates are appended to the surface in the
\* order in which their key codes are first met in the copy of the records
\* sorted by start (stable), each labelled with the label of the first
\* record of its key code in that copy.
C16_LanesInFirstEncounterOrder ==
    [][ TimerStep =>
          LET sorted == SortByStart(aRecord)
              created == (Len(lanes) + 1)..Len(lanes')
          IN  /\ \A i \in created :
                    lanes'[i].label = sorted[FirstOf(sorted, lanes'[i].keyCode)].key
              /\ \A i, j \in created :
                    i < j => FirstOf(sorted, lanes'[i].keyCode)
                               < FirstOf(sorted, lanes'[j].keyCode)
      ]_vars

\* ------------------------------------------------------------------- C17
\* C17: a render leaves the recorder as it was (the records and their order,
\* the raw log, the open intervals, the session clock), and a key-down, a
\* key-up or a reset leaves the surface as it was (lanes and their segments,
\* aDrew, mLastEnds).
C17_RendererAndRecorderApart ==
    [][ /\ TimerStep =>
              UNCHANGED <<aLogger, aRecord, zero, keysDown, isPaused>>
        /\ KeyStep \/ last'.op = "reset" =>
              UNCHANGED <<aDrew, mLastEnds, lanes>>
      ]_vars

\* A render has drawn records that aRecord holds out of start order.
C17_Witness ==
    /\ last.op = "timer"
    /\ SortByStart(aRecord) # aRecord
    /\ AllDrawn
    /\ keysDown = EmptyObj

\* ------------------------------------------------------------------- C18
\* C18: every gap segment on the surface has a non-negative width, that is,
\* every record was drawn at or after the lastDrawnEnd of its lane, whatever
\* the key events, timer renders and resets before it.
C18_GapsNonNegative ==
    \A i \in DOMAIN lanes : \A n \in DOMAIN lanes[i].segs :
        lanes[i].segs[n].kind = "gap" => lanes[i].segs[n].width[1] >= 0

\* ------------------------------------------------------------------- C19
\* The record object id is in aRecord.
InRecords(id) == \E i \in DOMAIN aRecord : aRecord[i].id = id

\* The record object id is in aDrew with its chunk on the lane of its key.
IsDrawn(id) ==
    /\ \E i \in DOMAIN aDrew : aDrew[i].id = id
    /\ \E p \in SegmentsOf("chunk", id) : lanes[p[1]].keyCode = Drawn(id).keyCode

\* C19: with the timer firing again and again, a record appended to
\* aRecord is eventually drawn, unless the recorder is reset (the record
\* leaves aRecord) or paused first.
C19_EventuallyDrawn ==
    \A id \in 1..MaxRecs :
        InRecords(id) ~> (IsDrawn(id) \/ ~InRecords(id) \/ isPaused)

\* The timer has drawn the record appended since the reset, next to the
\* record it drew before the reset.
C19_Witness ==
    /\ last.op = "timer"
    /\ ~isPaused
    /\ Len(aRecord) = 1
    /\ Len(aDrew) = 2
    /\ IsDrawn(aRecord[1].id)

\* ------------------------------------------------------------------- C20
\* C20: whenever an interval is open the session clock is set, and (the
\* clock never decreasing) every record has 0 <= start <= end.
C20_ClockSetAndRecordsOrdered ==
    /\ keysDown # EmptyObj => zero # Null
    /\ \A i \in DOMAIN aRecord :
          0 <= aRecord[i].start /\ aRecord[i].start <= aRecord[i].end

\* A key-up has appended a record that ends after it starts while another
\* interval is open.
C20_Witness ==
    /\ last.op = "keyup"
    /\ keysDown # EmptyObj
    /\ aRecord # <<>>
    /\ aRecord[Len(aRecord)].start < aRecord[Len(aRecord)].end

====
